---- MODULE Spec2Model ----
(***************************************************************************)
(* Sources/CSwiftQL/include/sqlite3_extensions.h                           *)
(*                                                                         *)
(*   errorLogCallback: pointer to a function returning void and taking     *)
(*                     (pArg, iErrCode, zMsg)                              *)
(*   registerErrorLogCallback(callback): the single statement              *)
(*                     sqlite3_config(SQLITE_CONFIG_LOG, callback, 0)      *)
(*                                                                         *)
(* The header is the whole bridge between the host and the engine: the     *)
(* host "registers" by passing a callback, "unregisters" by passing NULL,  *)
(* and the engine invokes the installed callback itself (there is no       *)
(* intermediate trampoline frame, no handle and no handler storage other   *)
(* than the engine's own log slot).                                        *)
(*                                                                         *)
(* One host thread runs registerErrorLogCallback; one engine thread runs   *)
(* log events.  The engine side (sqlite3_config storing its two varargs,   *)
(* the log dispatch reading them) is not part of the header; it is         *)
(* modelled from the interface the header is written against, with the     *)
(* two stores of sqlite3_config and the two loads of the dispatch as       *)
(* separate steps, since the header takes no lock around the call.         *)
(***************************************************************************)
EXTENDS Integers, Sequences, FiniteSets

\* ---------------------------------------------------------------- bounds
NumHandlers == 2
MaxCode == 2
MaxMsgLen == 2

\* ------------------------------------------------------------- constants
\* the literal 0 passed as the context argument; also the null callback
NULL == 0

Handlers == 1..NumHandlers
Callbacks == {NULL} \cup Handlers
Codes == 1..MaxCode
Alphabet == {"a", "b"}
Messages == UNION {[1..n -> Alphabet] : n \in 0..MaxMsgLen}

VARIABLES
    \* engine: the process-wide log slot written by sqlite3_config
    xLog, pLogArg,
    \* host thread inside registerErrorLogCallback
    hostPc, req, pending, cfg, rc, apiCalls, lastArgs, result,
    \* host history: what held when the current call began / the previous ended
    liveAtCall, prevOp, prevXLog, prevRc, pairCalls, hadReg, unregs,
    \* engine thread inside one log event
    engPc, ev, bufLive, obsCb, obsArg, invoked, engSite, sinkReported,
    handlerOutcome, handlerRef,
    \* event history: the host was idle when the event began and has made
    \* no call since
    evQuiet

hostVars == <<hostPc, req, pending, cfg, rc, apiCalls, lastArgs, result>>
histVars == <<liveAtCall, prevOp, prevXLog, prevRc, pairCalls, hadReg, unregs>>
slotVars == <<xLog, pLogArg>>
engVars == <<engPc, ev, bufLive, obsCb, obsArg, invoked, engSite, sinkReported,
             handlerOutcome, handlerRef>>
evHist == <<evQuiet>>
vars == <<slotVars, hostVars, histVars, engVars, evHist>>

NoArgs == [fn |-> "none", op |-> "none", callback |-> NULL, ctx |-> NULL]
NoEvent == [code |-> 0, msg |-> <<>>]

\* ------------------------------------------------------------ the header

\* A bug that would pass a token of the callback as the context.
EngineCalls_CtxToken(callback) ==
    << [fn |-> "sqlite3_config", op |-> "SQLITE_CONFIG_LOG",
        callback |-> callback, ctx |-> callback] >>

\* A bug that would refuse to replace a callback that is already installed.
EngineCalls_KeepFirst(callback) ==
    IF callback # NULL /\ xLog # NULL
    THEN << >>
    ELSE << [fn |-> "sqlite3_config", op |-> "SQLITE_CONFIG_LOG",
             callback |-> callback, ctx |-> NULL] >>

\* A bug that would make no engine call for a NULL callback.
EngineCalls_SkipNull(callback) ==
    IF callback = NULL
    THEN << >>
    ELSE << [fn |-> "sqlite3_config", op |-> "SQLITE_CONFIG_LOG",
             callback |-> callback, ctx |-> NULL] >>

\* A bug that would leave the installed callback in place on a NULL callback.
EngineCalls_Sticky(callback) ==
    << [fn |-> "sqlite3_config", op |-> "SQLITE_CONFIG_LOG",
        callback |-> IF callback = NULL THEN xLog ELSE callback,
        ctx |-> NULL] >>

\* A bug that would configure the engine twice per call.
EngineCalls_Twice(callback) ==
    << [fn |-> "sqlite3_config", op |-> "SQLITE_CONFIG_LOG",
        callback |-> callback, ctx |-> NULL],
       [fn |-> "sqlite3_config", op |-> "SQLITE_CONFIG_LOG",
        callback |-> callback, ctx |-> NULL] >>

\* The engine calls the body of registerErrorLogCallback makes, in order:
\* the single statement sqlite3_config(SQLITE_CONFIG_LOG, callback, 0).
EngineCalls(callback) ==
    << [fn |-> "sqlite3_config", op |-> "SQLITE_CONFIG_LOG",
        callback |-> callback, ctx |-> NULL] >>

\* A bug that would hand the engine's status back to the caller.
WrapperResult_Surface(status) ==
    IF status = "OK" \/ status = "none" THEN "void" ELSE "EngineRejected"

\* What registerErrorLogCallback returns: it is declared void and the value
\* of the sqlite3_config expression statement is discarded.
WrapperResult(status) == "void"

\* A bug (or a trampoline) that would copy the message and drop the pointer.
CallbackArgs_Copy(h, arg, code, text) ==
    [h |-> h, pArg |-> arg, iErrCode |-> code,
     zMsg |-> [kind |-> "owned", text |-> text]]

\* A bug that would cut the message to a fixed one-character buffer.
CallbackArgs_Truncate(h, arg, code, text) ==
    [h |-> h, pArg |-> arg, iErrCode |-> code,
     zMsg |-> [kind |-> "borrowed",
               text |-> IF Len(text) > 1 THEN SubSeq(text, 1, 1) ELSE text]]

\* What the registered function receives: errorLogCallback is called by the
\* engine with (pArg, iErrCode, zMsg), zMsg being the engine's own buffer.
CallbackArgs(h, arg, code, text) ==
    [h |-> h, pArg |-> arg, iErrCode |-> code,
     zMsg |-> [kind |-> "borrowed", text |-> text]]

\* A trampoline that would catch the handler's failure and report it.
Boundary_Catch(outcome) ==
    [site |-> "returned", reported |-> (outcome = "raised")]

\* How the outcome of the registered function reaches the engine's call
\* site: the function pointer given to sqlite3_config is the callback
\* itself, so its outcome arrives as it is and nothing is reported elsewhere.
Boundary(outcome) ==
    [site |-> outcome, reported |-> FALSE]

OpKind(callback) == IF callback = NULL THEN "unregister" ELSE "register"

\* A register/unregister pair is under way: a register call has been made
\* and the unregister call that closes it has not yet returned.
pairOpen == hadReg /\ unregs = 0

\* ------------------------------------------------------------------ Init
Init ==
    /\ xLog = NULL /\ pLogArg = NULL
    /\ hostPc = "idle" /\ req = NULL /\ pending = << >>
    /\ cfg = [active |-> FALSE, args |-> NoArgs, writes |-> {}]
    /\ rc = "none" /\ apiCalls = 0 /\ lastArgs = NoArgs /\ result = "none"
    /\ liveAtCall = NULL /\ prevOp = "none" /\ prevXLog = NULL
    /\ prevRc = "none" /\ pairCalls = 0 /\ hadReg = FALSE /\ unregs = 0
    /\ engPc = "idle" /\ ev = NoEvent /\ bufLive = FALSE
    /\ obsCb = NULL /\ obsArg = NULL /\ invoked = << >>
    /\ engSite = "none" /\ sinkReported = FALSE
    /\ handlerOutcome = "none" /\ handlerRef = FALSE
    /\ evQuiet = FALSE

\* ----------------------------------------------------------- host thread

\* The host calls registerErrorLogCallback(callback).
Call(callback) ==
    /\ hostPc = "idle"
    /\ hostPc' = "calling"
    /\ req' = callback
    /\ pending' = EngineCalls(callback)
    /\ rc' = "none" /\ apiCalls' = 0 /\ result' = "none"
    /\ liveAtCall' = xLog
    /\ hadReg' = (hadReg \/ callback # NULL)
    /\ unregs' = IF callback # NULL THEN 0 ELSE unregs
    /\ pairCalls' = IF callback # NULL THEN 0 ELSE pairCalls
    /\ evQuiet' = FALSE
    /\ UNCHANGED <<slotVars, cfg, lastArgs, prevOp, prevXLog, prevRc,
                   engVars>>

\* sqlite3_config is entered and accepts the call: its two stores follow.
ConfigAccept ==
    /\ hostPc = "calling" /\ pending # << >> /\ ~cfg.active
    /\ cfg' = [active |-> TRUE, args |-> Head(pending),
               writes |-> {"xLog", "pLogArg"}]
    /\ pending' = Tail(pending)
    /\ apiCalls' = apiCalls + 1
    /\ lastArgs' = Head(pending)
    /\ pairCalls' = IF pairOpen THEN pairCalls + 1 ELSE pairCalls
    /\ UNCHANGED <<slotVars, hostPc, req, rc, result, liveAtCall, prevOp,
                   prevXLog, prevRc, hadReg, unregs, engVars, evHist>>

\* sqlite3_config is entered and refuses the call: nothing is stored.
ConfigReject ==
    /\ hostPc = "calling" /\ pending # << >> /\ ~cfg.active
    /\ rc' = "MISUSE"
    /\ pending' = Tail(pending)
    /\ apiCalls' = apiCalls + 1
    /\ lastArgs' = Head(pending)
    /\ pairCalls' = IF pairOpen THEN pairCalls + 1 ELSE pairCalls
    /\ UNCHANGED <<slotVars, hostPc, req, cfg, result, liveAtCall, prevOp,
                   prevXLog, prevRc, hadReg, unregs, engVars, evHist>>

\* One of the two stores of an accepted sqlite3_config; the last one
\* completes the call with status OK.
ConfigWrite(f) ==
    /\ cfg.active /\ f \in cfg.writes
    /\ xLog' = IF f = "xLog" THEN cfg.args.callback ELSE xLog
    /\ pLogArg' = IF f = "pLogArg" THEN cfg.args.ctx ELSE pLogArg
    /\ cfg' = IF cfg.writes = {f}
              THEN [active |-> FALSE, args |-> NoArgs, writes |-> {}]
              ELSE [cfg EXCEPT !.writes = cfg.writes \ {f}]
    /\ rc' = IF cfg.writes = {f} THEN "OK" ELSE rc
    /\ UNCHANGED <<hostPc, req, pending, apiCalls, lastArgs, result,
                   histVars, engVars, evHist>>

\* registerErrorLogCallback returns to its caller.
Return ==
    /\ hostPc = "calling" /\ pending = << >> /\ ~cfg.active
    /\ hostPc' = "ret"
    /\ result' = WrapperResult(rc)
    /\ UNCHANGED <<slotVars, req, pending, cfg, rc, apiCalls, lastArgs,
                   histVars, engVars, evHist>>

\* The caller goes on; the call just made becomes the previous one.
Resume ==
    /\ hostPc = "ret"
    /\ hostPc' = "idle"
    /\ prevOp' = OpKind(req)
    /\ prevXLog' = xLog
    /\ prevRc' = rc
    /\ unregs' = IF req = NULL /\ unregs < 2 THEN unregs + 1 ELSE unregs
    /\ UNCHANGED <<slotVars, req, pending, cfg, rc, apiCalls, lastArgs,
                   result, liveAtCall, pairCalls, hadReg, engVars, evHist>>

\* --------------------------------------------------------- engine thread

\* The engine has a log event (code, msg) rendered into its own buffer.
LogBegin(code, msg) ==
    /\ engPc = "idle"
    /\ engPc' = "readCb"
    /\ ev' = [code |-> code, msg |-> msg]
    /\ bufLive' = TRUE
    /\ obsCb' = NULL /\ obsArg' = NULL /\ invoked' = << >>
    /\ engSite' = "none" /\ sinkReported' = FALSE
    /\ handlerOutcome' = "none" /\ handlerRef' = FALSE
    /\ evQuiet' = (hostPc = "idle")
    /\ UNCHANGED <<slotVars, hostVars, histVars>>

\* The dispatch loads the callback; with none installed the event is dropped.
LogReadCallback ==
    /\ engPc = "readCb"
    /\ obsCb' = xLog
    /\ engPc' = IF xLog = NULL THEN "dropped" ELSE "readArg"
    /\ engSite' = IF xLog = NULL THEN "returned" ELSE engSite
    /\ UNCHANGED <<slotVars, hostVars, histVars, ev, bufLive, obsArg,
                   invoked, sinkReported, handlerOutcome, handlerRef, evHist>>

\* The dispatch loads the context.
LogReadArg ==
    /\ engPc = "readArg"
    /\ obsArg' = pLogArg
    /\ engPc' = "call"
    /\ UNCHANGED <<slotVars, hostVars, histVars, ev, bufLive, obsCb,
                   invoked, engSite, sinkReported, handlerOutcome,
                   handlerRef, evHist>>

\* The engine calls the loaded callback.  The handler is host code: it
\* returns or raises, and it keeps the pointer it was given or does not.
LogInvoke(outcome, keep) ==
    /\ engPc = "call"
    /\ LET args == CallbackArgs(obsCb, obsArg, ev.code, ev.msg)
           b == Boundary(outcome)
       IN /\ invoked' = Append(invoked, args)
          /\ engSite' = b.site
          /\ sinkReported' = b.reported
          /\ handlerOutcome' = outcome
          /\ handlerRef' = (keep /\ args.zMsg.kind = "borrowed")
    /\ engPc' = "after"
    /\ UNCHANGED <<slotVars, hostVars, histVars, ev, bufLive, obsCb, obsArg,
                   evHist>>

\* The event is over at the engine's call site; its buffer is reclaimed.
LogEnd ==
    /\ engPc \in {"dropped", "after"}
    /\ engPc' = "ended"
    /\ bufLive' = FALSE
    /\ UNCHANGED <<slotVars, hostVars, histVars, ev, obsCb, obsArg, invoked,
                   engSite, sinkReported, handlerOutcome, handlerRef,
                   evHist>>

\* The engine thread is ready for the next event.
LogIdle ==
    /\ engPc = "ended"
    /\ engPc' = "idle"
    /\ ev' = NoEvent
    /\ obsCb' = NULL /\ obsArg' = NULL /\ invoked' = << >>
    /\ engSite' = "none" /\ sinkReported' = FALSE
    /\ handlerOutcome' = "none" /\ handlerRef' = FALSE
    /\ evQuiet' = FALSE
    /\ UNCHANGED <<slotVars, hostVars, histVars, bufLive>>

Next ==
    \/ \E callback \in Callbacks : Call(callback)
    \/ ConfigAccept
    \/ ConfigReject
    \/ \E f \in {"xLog", "pLogArg"} : ConfigWrite(f)
    \/ Return
    \/ Resume
    \/ \E code \in Codes, msg \in Messages : LogBegin(code, msg)
    \/ LogReadCallback
    \/ LogReadArg
    \/ \E outcome \in {"returned", "raised"}, keep \in BOOLEAN :
           LogInvoke(outcome, keep)
    \/ LogEnd
    \/ LogIdle

Spec == Init /\ [][Next]_vars

\* ------------------------------------------------------- shared notions

\* The call that has just returned is a register made while a callback
\* was installed.
RegisterWhileLive == hostPc = "ret" /\ req # NULL /\ liveAtCall # NULL

\* The call that has just returned is the second unregister in a row
\* after a register.
SecondUnregister == hostPc = "ret" /\ req = NULL /\ hadReg /\ unregs = 1

\* The call that has just returned is the unregister closing a
\* register/unregister pair.
PairClosed == hostPc = "ret" /\ req = NULL /\ hadReg /\ unregs = 0

\* The call that has just returned is a register the engine refused.
RegisterRefused == hostPc = "ret" /\ req # NULL /\ rc = "MISUSE"

\* The event in hand reached the end of its dispatch, and the host has
\* been idle since before it began.
QuietEventDone == engPc \in {"dropped", "after"} /\ evQuiet

LogCall(callback) ==
    [fn |-> "sqlite3_config", op |-> "SQLITE_CONFIG_LOG",
     callback |-> callback, ctx |-> NULL]

\* ------------------------------------------------------------------- C1

\* C1 as stated: a register call made while a handle (an installed
\* callback) is live fails with AlreadyRegistered and does not replace the
\* callback that is installed.
C1_SecondRegisterFails ==
    RegisterWhileLive =>
        /\ result = "AlreadyRegistered"
        /\ xLog = liveAtCall

\* C1 amended: the engine's slot holds at most one callback at any time; a
\* register call made while a callback is installed returns nothing, makes
\* its engine call all the same and, when the engine accepts it, replaces
\* the installed callback with the one passed (a refused call leaves the
\* installed one); with the host idle after an accepted register the slot
\* holds the callback of that register.
C1_SecondRegisterReplaces ==
    /\ xLog \in Callbacks
    /\ RegisterWhileLive =>
        /\ result = "void"
        /\ rc \in {"OK", "MISUSE"}
        /\ rc = "OK" => xLog = req
        /\ rc = "MISUSE" => xLog = liveAtCall
    /\ (hostPc = "idle" /\ prevOp = "register" /\ prevRc = "OK") => xLog = req

C1_Witness ==
    /\ RegisterWhileLive
    /\ liveAtCall # req
    /\ rc = "OK"
    /\ xLog = req

\* ------------------------------------------------------------------- C2

\* C2 as stated: a second unregister fails with AlreadyUnregistered, makes
\* no call into the engine's configuration primitive, and leaves the
\* registration state as it was after the first unregister.
C2_SecondUnregisterFails ==
    SecondUnregister =>
        /\ result = "AlreadyUnregistered"
        /\ apiCalls = 0
        /\ xLog = prevXLog

\* C2 amended: a second unregister returns nothing and makes one more
\* call sqlite3_config(SQLITE_CONFIG_LOG, NULL, 0); the registration state
\* is the same as after the first unregister, except when the engine
\* refused the first and accepts the second, which removes the callback.
C2_SecondUnregisterCallsAgain ==
    SecondUnregister =>
        /\ result = "void"
        /\ apiCalls = 1
        /\ lastArgs = LogCall(NULL)
        /\ rc \in {"OK", "MISUSE"}
        /\ (prevRc = "MISUSE" /\ rc = "OK") => xLog = NULL
        /\ ~(prevRc = "MISUSE" /\ rc = "OK") => xLog = prevXLog

C2_Witness ==
    /\ SecondUnregister
    /\ prevRc = "OK"
    /\ rc = "OK"
    /\ apiCalls = 1

\* ------------------------------------------------------------------- C3

C4_RefusalSurfaced ==
    RegisterRefused =>
        /\ result = "EngineRejected"
        /\ liveAtCall = NULL => xLog = NULL

\* C4 amended: when the engine's configuration call returns a status other
\* than OK, register returns nothing (the status is discarded, no failure
\* reaches the caller); the callback passed is not installed and the
\* engine's slot is left as it was before the call.
C4_RefusalDiscarded ==
    RegisterRefused =>
        /\ result = "void"
        /\ apiCalls = 1
        /\ xLog = liveAtCall
        /\ pLogArg = NULL

C4_Witness ==
    /\ RegisterRefused
    /\ liveAtCall = NULL
    /\ xLog = NULL

\* ------------------------------------------------------------------- C5

C6_FailureContained ==
    (engPc = "after" /\ handlerOutcome = "raised") =>
        /\ engSite = "returned"
        /\ sinkReported

\* C6 amended: nothing stands between the engine and the registered
\* function, so a handler that raises does so at the engine's call site
\* and nothing is reported to any diagnostic sink; the registration stays
\* as it was (the slot still holds the callback that was invoked).
C6_FailureReachesEngine ==
    /\ (engPc = "after" /\ handlerOutcome = "raised") =>
        /\ engSite = "raised"
        /\ ~sinkReported
    /\ (engPc = "after" /\ evQuiet) =>
        /\ xLog = obsCb
        /\ pLogArg = obsArg

C6_Witness ==
    /\ engPc = "after"
    /\ evQuiet
    /\ handlerOutcome = "raised"
    /\ engSite = "raised"
    /\ xLog = obsCb

\* ------------------------------------------------------------------- C7

\* C7 as stated: exactly one call into the engine's configuration
\* primitive per register/unregister pair.
C7_OneCallPerPair ==
    PairClosed => pairCalls = 1

\* C7 amended: exactly one call into the engine's configuration primitive
\* per register call and one per unregister call, hence two per
\* register/unregister pair; each has the 3-argument shape
\* (SQLITE_CONFIG_LOG, callback, context) with context 0, and no other
\* engine call is made.
C7_OneCallPerOperation ==
    /\ PairClosed => pairCalls = 2
    /\ hostPc = "ret" => apiCalls = 1
    /\ apiCalls > 0 =>
        /\ lastArgs.fn = "sqlite3_config"
        /\ lastArgs.op = "SQLITE_CONFIG_LOG"
        /\ lastArgs.callback \in Callbacks
        /\ lastArgs.ctx = NULL

C7_Witness ==
    /\ PairClosed
    /\ prevOp = "register"
    /\ pairCalls = 2

\* ------------------------------------------------------------------- C8

C9_CopiedNotRetained ==
    engPc = "ended" =>
        /\ \A i \in 1..Len(invoked) : invoked[i].zMsg.kind = "owned"
        /\ ~(handlerRef /\ ~bufLive)

\* C9 amended: no copy of the message is made: the registered function is
\* handed the engine-owned buffer itself, which is valid for the whole
\* invocation; a reference that outlives the buffer can only be one the
\* invoked handler kept.
C9_BorrowedForTheCall ==
    /\ engPc \in {"call", "after"} => bufLive
    /\ engPc \in {"after", "ended"} =>
        \A i \in 1..Len(invoked) :
            invoked[i].zMsg = [kind |-> "borrowed", text |-> ev.msg]
    /\ handlerRef => (engPc \in {"after", "ended"} /\ Len(invoked) = 1)

C9_Witness ==
    /\ engPc = "ended"
    /\ Len(invoked) = 1
    /\ invoked[1].zMsg.kind = "borrowed"
    /\ handlerRef
    /\ ~bufLive

\* ------------------------------------------------------------------ C10

\* C10: registerErrorLogCallback is stateless and unconditional: whatever
\* the callback (NULL included) and whatever came before, a call forwards
\* exactly once to sqlite3_config(SQLITE_CONFIG_LOG, callback, 0) with the
\* callback unchanged and context 0, discards the status and returns
\* nothing; when the engine accepts, the installed callback is the one of
\* the most recent call.
C10_ForwardsOnceUnconditionally ==
    hostPc = "ret" =>
        /\ apiCalls = 1
        /\ lastArgs = LogCall(req)
        /\ result = "void"
        /\ rc \in {"OK", "MISUSE"}
        /\ rc = "OK" => (xLog = req /\ pLogArg = NULL)

C10_Witness ==
    /\ hostPc = "ret"
    /\ prevOp = "unregister"
    /\ req = NULL
    /\ liveAtCall = NULL
    /\ rc = "OK"
    /\ apiCalls = 1

====
